---- MODULE Spec2Model ----
(***************************************************************************)
(* Model of the Dexcom OAuth token lifecycle and glucose retrieval of      *)
(* nmrastogi/diabetes_API: main.py (hardened server with a persisted token *)
(* file) and test_tokens.py (minimal in-memory server).                    *)
(*                                                                         *)
(* Python dicts are functions from a set of string keys; token strings are *)
(* token ids 1..MaxToken; None is 0.  A response text is a sequence of     *)
(* words and Python's substring test `x in r.text` is a contiguous         *)
(* sub-sequence test.  A JSON file is a sequence of <<key, value>> pairs.  *)
(* One handler invocation is one action; the requests it sent, the delays  *)
(* it took and the calls of refresh_access_token it made are recorded in   *)
(* `log`, the store before the invocation in `pre`, its answer in `ret`.   *)
(* `issued` is the refresh token the vendor issued last, `environ` the     *)
(* process environment of dexcom_fetch.py, `thr` the position of each of   *)
(* two threads inside save_tokens when handlers run in parallel.           *)
(***************************************************************************)
EXTENDS Integers, Sequences, FiniteSets, TLC

VARIABLES prog, TOKENS, token_file, csv_file, op, pre, log, ret,
          issued, environ, thr

vars == <<prog, TOKENS, token_file, csv_file, op, pre, log, ret, issued, environ, thr>>

\* ---------------------------------------------------------------- bounds
MaxToken == 2        \* distinct token strings the vendor can issue
MaxRows == 3         \* rows the appended CSV of dexcom_fetch.py may grow to

\* ------------------------------------------------------- program constants
\* mutant: one attempt more
max_retries_four == 3 + 1

max_retries == 3
RETRY_SLEEP == 5
None == 0

Keys == {"access_token", "refresh_token", "expires_in"}
KeyOrder == <<"access_token", "refresh_token", "expires_in">>
Tokens == 1..MaxToken
EXPIRES == 7200

EmptyDict == [k \in {} |-> 0]

\* ------------------------------------------------------- python primitives
\* dict.update(d): keys of d overwrite, other keys of t stay
dict_update(t, d) ==
    [k \in (DOMAIN t) \cup (DOMAIN d) |-> IF k \in DOMAIN d THEN d[k] ELSE t[k]]

\* dict.get(k, default)
dict_get(t, k, default) == IF k \in DOMAIN t THEN t[k] ELSE default

\* `needle in text` on word sequences
contains(text, needle) ==
    \E i \in 0..(Len(text) - Len(needle)) :
        \A j \in 1..Len(needle) : text[i + j] = needle[j]

RECURSIVE dump_from(_, _)
dump_from(d, i) ==
    IF i > Len(KeyOrder) THEN <<>>
    ELSE IF KeyOrder[i] \in DOMAIN d
         THEN <<<<KeyOrder[i], d[KeyOrder[i]]>>>> \o dump_from(d, i + 1)
         ELSE dump_from(d, i + 1)

\* json.dump(tokens, f): the object's members, one pair per key
json_dump(d) == dump_from(d, 1)

\* json.load(f): the last member of a name wins
json_load(text) ==
    [k \in {text[i][1] : i \in DOMAIN text} |->
        LET last == CHOOSE i \in DOMAIN text :
                        /\ text[i][1] = k
                        /\ \A j \in DOMAIN text : text[j][1] = k => j <= i
        IN text[last][2]]

NoFile == [exists |-> FALSE, text |-> <<>>]
FileOf(text) == [exists |-> TRUE, text |-> text]
NoCsv == [exists |-> FALSE, rows |-> <<>>]

\* ------------------------------------------------------------ vendor side
NetErr == [kind |-> "neterr", status |-> 0, text |-> <<>>, json |-> EmptyDict]
NoResp == [kind |-> "none", status |-> 0, text |-> <<>>, json |-> EmptyDict]
Http(status, text, json) == [kind |-> "http", status |-> status, text |-> text, json |-> json]

\* 200 bodies of the token endpoint: access_token always, refresh_token and
\* the additional field optional
TokenBodies ==
    { [k \in ({"access_token"} \cup ks) |->
         IF k = "access_token" THEN a ELSE IF k = "refresh_token" THEN r ELSE EXPIRES]
      : ks \in SUBSET {"refresh_token", "expires_in"}, a \in Tokens, r \in Tokens }

TokenFailures ==
    { Http(400, <<"invalid_grant">>, EmptyDict),
      Http(502, <<"502", "Bad", "Gateway">>, EmptyDict),
      Http(503, <<"UAM", "is", "down">>, EmptyDict),
      Http(502, <<"Bad", "Gateway">>, EmptyDict) }

TokenResponses ==
    { Http(200, <<"ok">>, b) : b \in TokenBodies } \cup TokenFailures \cup {NetErr}

\* a batch of readings is a sequence of opaque records
Batches == {<<>>, <<1>>, <<2, 3>>}

EgvsResponses ==
    { Http(200, <<"ok">>, [egvs |-> b]) : b \in Batches }
    \cup { Http(200, <<"ok">>, EmptyDict),
           Http(401, <<"Unauthorized">>, EmptyDict),
           Http(500, <<"server", "error">>, EmptyDict),
           NetErr }

\* ------------------------------------------------------------ main.py store
\* mutant: the file is written and the memory is forgotten
save_tokens_file_only(tokens, T, F) ==
    [file |-> FileOf(json_dump(tokens)), TOKENS |-> T]

\* mutant: the memory is updated and the file is left alone
save_tokens_memory_only(tokens, T, F) ==
    [file |-> F, TOKENS |-> dict_update(T, tokens)]

\* save_tokens(tokens): write the file, then TOKENS.update(tokens)
save_tokens(tokens, T, F) ==
    [file |-> FileOf(json_dump(tokens)), TOKENS |-> dict_update(T, tokens)]

\* load_tokens(): TOKENS.update(json.load(f)) when the file exists
load_tokens(T, F) ==
    IF F.exists THEN dict_update(T, json_load(F.text)) ELSE T

\* ------------------------------------------------------------ log entries
PostEv(grant, tok, resp) == [type |-> "post", grant |-> grant, tok |-> tok, resp |-> resp]
GetEv(bearer, resp) == [type |-> "get", bearer |-> bearer, resp |-> resp]
SleepEv(secs) == [type |-> "sleep", secs |-> secs]
RefreshEv(sent, resp, bT, bF, aT, aF, value, raised) ==
    [type |-> "refresh_access_token", sent |-> sent, resp |-> resp,
     before |-> [TOKENS |-> bT, file |-> bF],
     after |-> [TOKENS |-> aT, file |-> aF],
     value |-> value, raised |-> raised]

Reply(status, payload) == [status |-> status, payload |-> payload]
NoRet == Reply(0, EmptyDict)
\* an exception that leaves the handler is answered by the framework
ServerError == Reply(500, [detail |-> <<"Internal Server Error">>])

\* ------------------------------------------------- main.py refresh_access_token
\* what a call leaves behind: the store, the value returned, whether an
\* exception left the function, the requests it sent
Refreshed(T, F, value, raised, l) ==
    [TOKENS |-> T, file |-> F, value |-> value, raised |-> raised, log |-> l]

\* mutant: the guard is missing and the request goes out without a token
refresh_no_token_unguarded(T, F) ==
    Refreshed(T, F, None, FALSE, <<PostEv("refresh_token", None, NoResp)>>)

\* mutant: the store is written back before the missing token is reported
refresh_no_token_saves(T, F) ==
    Refreshed(save_tokens(T, T, F).TOKENS, save_tokens(T, T, F).file, None, FALSE, <<>>)

\* lines 46-47: no refresh token stored
refresh_no_token(T, F) == Refreshed(T, F, None, FALSE, <<>>)

\* mutant: a rejected refresh drops the cached credential
refresh_rejected_clears(T, F, resp) == Refreshed(EmptyDict, F, None, FALSE, <<>>)

\* lines 58-60: the vendor rejected the refresh
refresh_rejected(T, F, resp) == Refreshed(T, F, None, FALSE, <<>>)

\* lines 62-65: the vendor answered 200
refresh_accepted(T, F, resp) ==
    LET new_tokens == resp.json
        s == save_tokens(new_tokens, T, F)
    IN Refreshed(s.TOKENS, s.file, new_tokens["access_token"], FALSE, <<>>)

\* lines 49-65: the token request and what follows it; requests.post raises
\* on a transport error and nothing catches it
refresh_request(T, F, resp) ==
    LET req == PostEv("refresh_token", T["refresh_token"], resp)
        done == IF resp.kind = "neterr" THEN Refreshed(T, F, None, TRUE, <<>>)
                ELSE IF resp.status # 200 THEN refresh_rejected(T, F, resp)
                ELSE refresh_accepted(T, F, resp)
    IN [done EXCEPT !.log = <<req>> \o @]

\* resp is the vendor's answer to the token request, if one is sent.  The
\* call is closed in the log by an entry holding the store around it.
refresh_access_token(T, F, resp) ==
    LET done == IF "refresh_token" \notin DOMAIN T
                THEN refresh_no_token(T, F)
                ELSE refresh_request(T, F, resp)
        sent == done.log # <<>>
    IN [done EXCEPT !.log = @ \o <<RefreshEv(sent, IF sent THEN resp ELSE NoResp, T, F,
                                             done.TOKENS, done.file, done.value,
                                             done.raised)>>]

\* ---------------------------------------------------------- main.py fetch_egvs
Outcome(T, F, C, r, l) == [TOKENS |-> T, file |-> F, csv |-> C, ret |-> r, log |-> l]

\* mutant: the empty batch is written like any other
no_data_never(data) == FALSE

\* line 183: `if not data`
no_data(data) == data = <<>>

\* lines 179-192: the answer to the last retrieval response
fetch_tail(T, F, C, r, l) ==
    IF r.status # 200
    THEN Outcome(T, F, C, Reply(200, [error |-> r.text]), l)
    ELSE LET data == dict_get(r.json, "egvs", <<>>) IN
         IF no_data(data)
         THEN Outcome(T, F, C,
                      Reply(200, [message |-> <<"No data returned from Dexcom.">>]), l)
         ELSE Outcome(T, F, [exists |-> TRUE, rows |-> data],
                      Reply(200, [message |-> <<"Saved records to CSV_FILE">>,
                                  records |-> Len(data),
                                  file |-> <<"CSV_FILE">>]), l)

\* mutant: the test is inverted
no_token_inverted(value) == value # None

\* mutant: the check of the refresh's result is missing
no_token_unchecked(value) == FALSE

\* lines 157, 174: `if not access_token` after a refresh
no_token(value) == value = None

\* mutant: the retry is sent with the headers of the first call
retry_bearer_stale(stale, refreshed) == stale

\* line 176: the retry's Authorization header is rebuilt from the refreshed token
retry_bearer(stale, refreshed) == refreshed

\* lines 169-177: first retrieval, the 401 branch and the second retrieval
fetch_retrieve(T, F, C, access_token, s, l) ==
    LET l1 == l \o <<GetEv(access_token, s.g1)>> IN
    IF s.g1.kind = "neterr" THEN Outcome(T, F, C, ServerError, l1)
    ELSE IF s.g1.status = 401
    THEN LET rf == refresh_access_token(T, F, s.r1)
             l2 == l1 \o rf.log
         IN IF rf.raised THEN Outcome(rf.TOKENS, rf.file, C, ServerError, l2)
            ELSE IF no_token(rf.value)
            THEN Outcome(rf.TOKENS, rf.file, C,
                         Reply(200, [error |-> <<"Failed to refresh token. Login again via /login">>]), l2)
            ELSE LET l3 == l2 \o <<GetEv(retry_bearer(access_token, rf.value), s.g2)>> IN
                 IF s.g2.kind = "neterr"
                 THEN Outcome(rf.TOKENS, rf.file, C, ServerError, l3)
                 ELSE fetch_tail(rf.TOKENS, rf.file, C, s.g2, l3)
    ELSE fetch_tail(T, F, C, s.g1, l1)

\* s = [r0, g1, r1, g2]: the vendor's answers to the refresh made when no
\* access token is cached, the first retrieval, the refresh after a 401 and
\* the second retrieval
fetch_egvs(T, F, C, s) ==
    LET access_token == dict_get(T, "access_token", None) IN
    IF no_token(access_token)
    THEN LET rf == refresh_access_token(T, F, s.r0) IN
         IF rf.raised THEN Outcome(rf.TOKENS, rf.file, C, ServerError, rf.log)
         ELSE IF no_token(rf.value)
         THEN Outcome(rf.TOKENS, rf.file, C,
                      Reply(200, [error |-> <<"No valid tokens. Please login first via /login">>]),
                      rf.log)
         ELSE fetch_retrieve(rf.TOKENS, rf.file, C, rf.value, s, rf.log)
    ELSE fetch_retrieve(T, F, C, access_token, s, <<>>)

\* ------------------------------------------------------------ main.py callback
\* mutant: only the gateway status is looked for
transient_marker_502_only(text) == contains(text, <<"502">>)

\* line 125: the body names the vendor-side outage
transient_marker(text) == contains(text, <<"502">>) \/ contains(text, <<"UAM", "is", "down">>)

\* mutant: the last attempt is taken for one that can be retried
more_attempts_off_by_one(attempt) == attempt < max_retries

\* lines 126, 140: another attempt follows this one
more_attempts(attempt) == attempt < max_retries - 1

\* lines 131-135
service_unavailable ==
    Reply(503, [error |-> <<"Dexcom UAM service is temporarily unavailable">>,
                message |-> <<"Please try again later.">>,
                retry_after |-> <<"5-10 minutes">>])

\* mutant: every rejection is answered with the same status
exchange_rejected_fixed_status(r) == Reply(500, [error |-> r.text])

\* mutant: a transport error on the last attempt is reported as an outage
network_error_as_outage == Reply(503, [error |-> <<"Network error">>])

\* line 145: a transport error on the last attempt
network_error == Reply(500, [error |-> <<"Network error">>])

\* line 137: any other rejection is handed to the caller as it came
exchange_rejected(r) == Reply(r.status, [error |-> r.text])

\* lines 114-124
exchange_accepted(r, T, F, C, l) ==
    LET tokens == r.json
        s == save_tokens(tokens, T, F)
    IN Outcome(s.TOKENS, s.file, C,
               Reply(200, [message |-> <<"Tokens received and saved!">>,
                           tokens |-> tokens]), l)

\* line 147: the answer after the loop
fall_through == Reply(500, [error |-> <<"Failed after multiple retries">>])

\* mutant: the loop runs over range(max_retries - 1)
loop_done_early(attempt) == attempt >= max_retries - 1

\* line 108: range(max_retries) is used up
loop_done(attempt) == attempt >= max_retries

RECURSIVE callback_loop(_, _, _, _, _, _)
callback_loop(attempt, script, T, F, C, l) ==
    IF loop_done(attempt)
    THEN Outcome(T, F, C, fall_through, l)
    ELSE LET r == script[attempt + 1]
             l1 == l \o <<PostEv("authorization_code", None, r)>>
         IN
         IF r.kind = "neterr"
         THEN IF more_attempts(attempt)
              THEN callback_loop(attempt + 1, script, T, F, C, l1 \o <<SleepEv(RETRY_SLEEP)>>)
              ELSE Outcome(T, F, C, network_error, l1)
         ELSE IF r.status = 200
         THEN exchange_accepted(r, T, F, C, l1)
         ELSE IF transient_marker(r.text)
         THEN IF more_attempts(attempt)
              THEN callback_loop(attempt + 1, script, T, F, C, l1 \o <<SleepEv(RETRY_SLEEP)>>)
              ELSE Outcome(T, F, C, service_unavailable, l1)
         ELSE Outcome(T, F, C, exchange_rejected(r), l1)

callback(script, T, F, C) == callback_loop(0, script, T, F, C, <<>>)

\* -------------------------------------------------------------- test_tokens.py
tt_callback(r, T) ==
    LET l == <<PostEv("authorization_code", None, r)>> IN
    IF r.kind = "neterr" THEN [TOKENS |-> T, ret |-> ServerError, log |-> l]
    ELSE IF r.status # 200
    THEN [TOKENS |-> T, ret |-> Reply(r.status, [error |-> r.text]), log |-> l]
    ELSE [TOKENS |-> dict_update(T, r.json),
          ret |-> Reply(200, [message |-> <<"Tokens received!">>, tokens |-> r.json]),
          log |-> l]

tt_refresh(r, T) ==
    IF "refresh_token" \notin DOMAIN T
    THEN [TOKENS |-> T,
          ret |-> Reply(200, [error |-> <<"No refresh_token found. Do /login first.">>]),
          log |-> <<>>]
    ELSE LET l == <<PostEv("refresh_token", T["refresh_token"], r)>> IN
         IF r.kind = "neterr" THEN [TOKENS |-> T, ret |-> ServerError, log |-> l]
         ELSE IF r.status # 200
         THEN [TOKENS |-> T, ret |-> Reply(r.status, [error |-> r.text]), log |-> l]
         ELSE [TOKENS |-> dict_update(T, r.json),
               ret |-> Reply(200, [message |-> <<"Access token refreshed!">>, tokens |-> r.json]),
               log |-> l]

\* ------------------------------------------------------------ dexcom_fetch.py
\* what a function leaves behind: its value, whether it raised, its requests
Returned(value, raised, l) == [value |-> value, raised |-> raised, log |-> l]

\* lines 20-36; the tuple of line 34 needs both keys of the answer
sc_refresh_access_token(REFRESH_TOKEN, r) ==
    LET l == <<PostEv("refresh_token", REFRESH_TOKEN, r)>> IN
    IF r.kind = "neterr" THEN Returned(None, TRUE, l)
    ELSE IF r.status = 200
    THEN IF {"access_token", "refresh_token"} \subseteq DOMAIN r.json
         THEN Returned(<<r.json["access_token"], r.json["refresh_token"]>>, FALSE, l)
         ELSE Returned(None, TRUE, l)
    ELSE Returned(None, TRUE, l)

\* lines 39-52
sc_fetch_glucose_data(access_token, g) ==
    LET l == <<GetEv(access_token, g)>> IN
    IF g.kind = "neterr" THEN Returned(<<>>, TRUE, l)
    ELSE IF g.status = 200 THEN Returned(dict_get(g.json, "egvs", <<>>), FALSE, l)
    ELSE Returned(<<>>, TRUE, l)

\* lines 55-67: nothing on empty data, else append to the file or create it
sc_save_to_csv(data, C) ==
    IF data = <<>> THEN C
    ELSE IF C.exists THEN [exists |-> TRUE, rows |-> C.rows \o data]
    ELSE [exists |-> TRUE, rows |-> data]

ScriptError == Reply(0, [printed |-> <<"Error">>])
ScriptDone == Reply(0, [printed |-> <<"done">>])

\* lines 70-82: one run of the script; ACCESS_TOKEN and REFRESH_TOKEN are
\* module globals read from the environment (lines 13-14) and assigned at
\* line 73; they end with the process.  s = [r, g]: the vendor's answers.
sc_main(env, C, s) ==
    LET rf == sc_refresh_access_token(env.REFRESH_TOKEN, s.r) IN
    IF rf.raised THEN [csv |-> C, ret |-> ScriptError, log |-> rf.log]
    ELSE LET ACCESS_TOKEN == rf.value[1]
             ft == sc_fetch_glucose_data(ACCESS_TOKEN, s.g)
         IN IF ft.raised THEN [csv |-> C, ret |-> ScriptError, log |-> rf.log \o ft.log]
            ELSE [csv |-> sc_save_to_csv(ft.value, C), ret |-> ScriptDone,
                  log |-> rf.log \o ft.log]

\* a refresh request without a refresh token (REFRESH_TOKEN unset) is never
\* answered 200
ScriptScripts(env) ==
    UNION { { [r |-> r, g |-> g] :
                g \in (IF r.status = 200 /\ "refresh_token" \in DOMAIN r.json
                       THEN EgvsResponses ELSE {NoResp}) }
            : r \in (IF env.REFRESH_TOKEN = None
                     THEN TokenFailures \cup {NetErr} ELSE TokenResponses) }

Environs == { [REFRESH_TOKEN |-> x] : x \in Tokens \cup {None} }

\* ------------------------------------------------------ the vendor's answers
\* The vendor answers the requests that are sent: an answer slot of a request
\* that is not sent holds NoResp.
RECURSIVE CodeScriptsFrom(_)
CodeScriptsFrom(s) ==
    IF Len(s) = max_retries THEN {s}
    ELSE IF Len(s) > 0 /\ (s[Len(s)].kind = "none" \/ s[Len(s)].status = 200)
         THEN CodeScriptsFrom(Append(s, NoResp))
         ELSE UNION { CodeScriptsFrom(Append(s, r)) : r \in TokenResponses }

CodeScripts == CodeScriptsFrom(<<>>)

FetchScripts(T) ==
    LET cached == dict_get(T, "access_token", None) # None
        R0 == IF ~cached /\ "refresh_token" \in DOMAIN T THEN TokenResponses ELSE {NoResp}
        T1(r0) == IF r0.status = 200 THEN dict_update(T, r0.json) ELSE T
        G1(r0) == IF cached \/ r0.status = 200 THEN EgvsResponses ELSE {NoResp}
        R1(r0, g1) == IF g1.status = 401 /\ "refresh_token" \in DOMAIN T1(r0)
                      THEN TokenResponses ELSE {NoResp}
        G2(r1) == IF r1.status = 200 THEN EgvsResponses ELSE {NoResp}
    IN UNION { UNION { UNION { { [r0 |-> r0, g1 |-> g1, r1 |-> r1, g2 |-> g2]
                                 : g2 \in G2(r1) }
                               : r1 \in R1(r0, g1) }
                       : g1 \in G1(r0) }
               : r0 \in R0 }

\* every credential a token file can hold when the process starts
StoredDicts ==
    { [k \in ks |-> IF k = "access_token" THEN a ELSE IF k = "refresh_token" THEN r ELSE EXPIRES]
      : ks \in SUBSET Keys, a \in Tokens, r \in Tokens }

InitFiles == {NoFile} \cup { FileOf(json_dump(d)) : d \in StoredDicts }

Store == [TOKENS |-> TOKENS, file |-> token_file, csv |-> csv_file, issued |-> issued]

\* the refresh token of the last 200 answer of the token endpoint that
\* carried one; `old` if the requests of l got no such answer
RECURSIVE last_issued(_, _)
last_issued(l, old) ==
    IF l = <<>> THEN old
    ELSE LET e == l[Len(l)] IN
         IF e.type = "post" /\ e.resp.kind = "http" /\ e.resp.status = 200
               /\ "refresh_token" \in DOMAIN e.resp.json
         THEN e.resp.json["refresh_token"]
         ELSE last_issued(SubSeq(l, 1, Len(l) - 1), old)

NoEnviron == [REFRESH_TOKEN |-> None]
NoThreads == [t \in {} |-> 0]

\* lines 81-91 (main.py), 36-46 (test_tokens.py): the redirect to the vendor
login == Reply(307, [location |-> <<"DEXCOM_AUTH_URL", "client_id", "redirect_uri",
                                    "response_type=code", "scope">>])

\* module import: TOKENS = {} and, in main.py, load_tokens()
module_init(p, F) == IF p = "main" THEN load_tokens(EmptyDict, F) ELSE EmptyDict

\* ------------------------------------------------------------ state machine
\* op names the handler whose invocation `pre`, `log` and `ret` describe;
\* "idle" when the server waits for the next request (section 5: one
\* invocation runs to completion before the next is processed).
Init ==
    /\ prog \in {"main", "test_tokens", "script"}
    /\ token_file \in (IF prog = "main" THEN InitFiles ELSE {NoFile})
    /\ environ \in (IF prog = "script" THEN Environs ELSE {NoEnviron})
    /\ TOKENS = module_init(prog, token_file)
    /\ csv_file = NoCsv
    /\ op = "idle"
    /\ issued = IF prog = "script" THEN environ.REFRESH_TOKEN
                ELSE dict_get(TOKENS, "refresh_token", None)
    /\ pre = [TOKENS |-> TOKENS, file |-> token_file, csv |-> csv_file, issued |-> issued]
    /\ log = <<>>
    /\ ret = NoRet
    /\ thr = NoThreads

Callback ==
    /\ prog = "main"
    /\ op = "idle"
    /\ \E o \in { callback(script, TOKENS, token_file, csv_file) : script \in CodeScripts } :
         /\ TOKENS' = o.TOKENS
         /\ token_file' = o.file
         /\ csv_file' = o.csv
         /\ ret' = o.ret
         /\ log' = o.log
         /\ issued' = last_issued(o.log, issued)
    /\ op' = "callback"
    /\ pre' = Store
    /\ UNCHANGED <<prog, environ, thr>>

FetchEgvs ==
    /\ prog = "main"
    /\ op = "idle"
    /\ \E o \in { fetch_egvs(TOKENS, token_file, csv_file, s) : s \in FetchScripts(TOKENS) } :
         /\ TOKENS' = o.TOKENS
         /\ token_file' = o.file
         /\ csv_file' = o.csv
         /\ ret' = o.ret
         /\ log' = o.log
         /\ issued' = last_issued(o.log, issued)
    /\ op' = "fetch_egvs"
    /\ pre' = Store
    /\ UNCHANGED <<prog, environ, thr>>

TTCallback ==
    /\ prog = "test_tokens"
    /\ op = "idle"
    /\ \E o \in { tt_callback(r, TOKENS) : r \in TokenResponses } :
         /\ TOKENS' = o.TOKENS
         /\ ret' = o.ret
         /\ log' = o.log
         /\ issued' = last_issued(o.log, issued)
    /\ op' = "tt_callback"
    /\ pre' = Store
    /\ UNCHANGED <<prog, token_file, csv_file, environ, thr>>

TTRefresh ==
    /\ prog = "test_tokens"
    /\ op = "idle"
    /\ \E o \in { tt_refresh(r, TOKENS) :
                  r \in (IF "refresh_token" \in DOMAIN TOKENS THEN TokenResponses ELSE {NoResp}) } :
         /\ TOKENS' = o.TOKENS
         /\ ret' = o.ret
         /\ log' = o.log
         /\ issued' = last_issued(o.log, issued)
    /\ op' = "tt_refresh"
    /\ pre' = Store
    /\ UNCHANGED <<prog, token_file, csv_file, environ, thr>>

\* python dexcom_fetch.py: one run of the script, a process of its own
ScriptRun ==
    /\ prog = "script"
    /\ op = "idle"
    /\ \E o \in { sc_main(environ, csv_file, s) : s \in ScriptScripts(environ) } :
         /\ Len(o.csv.rows) <= MaxRows
         /\ csv_file' = o.csv
         /\ ret' = o.ret
         /\ log' = o.log
         /\ issued' = last_issued(o.log, issued)
    /\ op' = "script"
    /\ pre' = Store
    /\ UNCHANGED <<prog, TOKENS, token_file, environ, thr>>

\* the answer is delivered and the server waits for the next request
Respond ==
    /\ op # "idle"
    /\ op' = "idle"
    /\ pre' = Store
    /\ log' = <<>>
    /\ ret' = NoRet
    /\ UNCHANGED <<prog, TOKENS, token_file, csv_file, issued, environ, thr>>

\* the process exits and is started again: memory is rebuilt by the module's
\* import, files stay; pre, log and ret keep describing the last invocation
Restart ==
    /\ prog \in {"main", "test_tokens"}
    /\ op # "restart"
    /\ TOKENS' = module_init(prog, token_file)
    /\ op' = "restart"
    /\ UNCHANGED <<prog, token_file, csv_file, pre, log, ret, issued, environ, thr>>

\* GET /login: the redirect is built, nothing is sent and nothing is stored
Login ==
    /\ prog \in {"main", "test_tokens"}
    /\ op = "idle"
    /\ op' = "login"
    /\ pre' = Store
    /\ log' = <<>>
    /\ ret' = login
    /\ UNCHANGED <<prog, TOKENS, token_file, csv_file, issued, environ, thr>>

Next ==
    \/ Callback \/ FetchEgvs \/ TTCallback \/ TTRefresh \/ Respond \/ Restart \/ Login
    \/ ScriptRun

Spec == Init /\ [][Next]_vars

\* ------------------------------------------- two handlers inside save_tokens
\* The framework runs `def` handlers on worker threads, so two invocations
\* can be inside save_tokens at once.  Each thread has received its 200
\* answer (main.py:114-116, 62-63) and takes the two steps of save_tokens:
\* lines 31-32 (write the file), then line 33 (update TOKENS).
\* thr.overlapped records that a thread moved while the other was between
\* its two steps, thr.last the thread that moved last.
Threads == {1, 2}
PairBodies == { b \in TokenBodies : "refresh_token" \in DOMAIN b }

InitConc ==
    /\ prog = "main"
    /\ token_file \in InitFiles
    /\ TOKENS = module_init(prog, token_file)
    /\ csv_file = NoCsv
    /\ op = "save_tokens"
    /\ issued = dict_get(TOKENS, "refresh_token", None)
    /\ pre = [TOKENS |-> TOKENS, file |-> token_file, csv |-> csv_file, issued |-> issued]
    /\ log = <<>>
    /\ ret = NoRet
    /\ environ = NoEnviron
    /\ \E tk \in [Threads -> PairBodies] :
         thr = [pc |-> [t \in Threads |-> "call"], tokens |-> tk,
                last |-> 0, overlapped |-> FALSE]

Moved(t, pc) ==
    [thr EXCEPT !.pc[t] = pc, !.last = t,
                !.overlapped = @ \/ \E u \in Threads \ {t} : thr.pc[u] = "written"]

\* lines 31-32
SaveWriteFile(t) ==
    /\ thr.pc[t] = "call"
    /\ token_file' = save_tokens(thr.tokens[t], TOKENS, token_file).file
    /\ thr' = Moved(t, "written")
    /\ UNCHANGED <<prog, TOKENS, csv_file, op, pre, log, ret, issued, environ>>

\* line 33
SaveUpdateMemory(t) ==
    /\ thr.pc[t] = "written"
    /\ TOKENS' = save_tokens(thr.tokens[t], TOKENS, token_file).TOKENS
    /\ thr' = Moved(t, "done")
    /\ UNCHANGED <<prog, token_file, csv_file, op, pre, log, ret, issued, environ>>

NextConc == \E t \in Threads : SaveWriteFile(t) \/ SaveUpdateMemory(t)

SpecConc == InitConc /\ [][NextConc]_vars

\* ------------------------------------------------------------- observations
Posts == SelectSeq(log, LAMBDA e : e.type = "post")
Gets == SelectSeq(log, LAMBDA e : e.type = "get")
Sleeps == SelectSeq(log, LAMBDA e : e.type = "sleep")
RefreshCalls == { i \in DOMAIN log : log[i].type = "refresh_access_token" }
Rejected(resp) == resp.kind = "http" /\ resp.status # 200
Accepted(resp) == resp.kind = "http" /\ resp.status = 200
HasRefreshToken(T) == "refresh_token" \in DOMAIN T
\* the requests a call of refresh_access_token sent: the post just before
\* its closing entry
RequestsOf(i) == IF i > 1 /\ log[i - 1].type = "post" THEN 1 ELSE 0

\* C1: a refresh that the vendor answers with a non-200 status leaves TOKENS
\* and (main.py) the token file exactly as they were and reports failure:
\* refresh_access_token returns None and fetch_egvs answers with an error;
\* /refresh of test_tokens.py answers with the vendor's error and status.
C1_RejectedRefreshKeepsStore ==
    /\ \A i \in RefreshCalls :
         (log[i].sent /\ Rejected(log[i].resp)) =>
             /\ log[i].after = log[i].before
             /\ log[i].value = None
    /\ (op = "fetch_egvs" /\ \E i \in RefreshCalls : log[i].sent /\ Rejected(log[i].resp)) =>
             /\ "error" \in DOMAIN ret.payload
             /\ token_file = log[Len(log)].before.file
             /\ TOKENS = log[Len(log)].before.TOKENS
    /\ (op = "tt_refresh" /\ Len(log) = 1 /\ Rejected(log[1].resp)) =>
             /\ TOKENS = pre.TOKENS
             /\ "error" \in DOMAIN ret.payload
             /\ ret.status = log[1].resp.status

C1_Witness ==
    /\ op = "fetch_egvs"
    /\ \E i \in RefreshCalls : log[i].sent /\ Rejected(log[i].resp)
    /\ pre.file.exists
    /\ {"access_token", "refresh_token"} \subseteq DOMAIN TOKENS

\* C2: with no refresh_token key in the stored credential a refresh fails,
\* sends no request to the vendor and leaves the stored credential unchanged.
C2_NoRefreshTokenNoRequest ==
    /\ \A i \in RefreshCalls :
         ~HasRefreshToken(log[i].before.TOKENS) =>
             /\ ~log[i].sent
             /\ RequestsOf(i) = 0
             /\ log[i].value = None
             /\ log[i].after = log[i].before
             /\ op = "fetch_egvs" =>
                  /\ i = Len(log)
                  /\ "error" \in DOMAIN ret.payload
                  /\ TOKENS = log[i].before.TOKENS
                  /\ token_file = log[i].before.file
    /\ (op = "tt_refresh" /\ ~HasRefreshToken(pre.TOKENS)) =>
             /\ log = <<>>
             /\ "error" \in DOMAIN ret.payload
             /\ TOKENS = pre.TOKENS

C2_Witness ==
    /\ op = "fetch_egvs"
    /\ \E i \in RefreshCalls : ~HasRefreshToken(log[i].before.TOKENS)
    /\ Len(Gets) = 1
    /\ "access_token" \in DOMAIN TOKENS

\* position of the first retrieval call of the invocation, 0 if none
FirstGet == IF Gets = <<>> THEN 0
            ELSE CHOOSE i \in DOMAIN log :
                    log[i].type = "get" /\ \A j \in 1..(i - 1) : log[j].type # "get"
Is401(resp) == resp.kind = "http" /\ resp.status = 401
\* the store at the moment the first retrieval call is issued
StoreAtFirstGet ==
    IF FirstGet = 1 THEN [TOKENS |-> pre.TOKENS, file |-> pre.file]
    ELSE log[FirstGet - 1].after

\* C3: in one invocation of fetch_egvs a 401 on the first retrieval is
\* followed by a refresh attempt; when the vendor accepts that refresh the
\* retrieval is re-issued exactly once with the access token of the refresh
\* response as bearer, and whatever the second answer is nothing follows it:
\* no third retrieval, no further refresh.  At most two retrievals are issued.
C3_OneRefreshAndRetry ==
    op = "fetch_egvs" =>
        /\ Len(Gets) <= 2
        /\ (FirstGet > 0 /\ Is401(log[FirstGet].resp)) =>
             LET i == FirstGet IN
             /\ \E j \in RefreshCalls : j > i
             /\ (HasRefreshToken(StoreAtFirstGet.TOKENS)
                    /\ Len(log) >= i + 1 /\ log[i + 1].type = "post"
                    /\ Accepted(log[i + 1].resp)) =>
                  /\ Len(log) = i + 3
                  /\ log[i + 2].type = "refresh_access_token"
                  /\ log[i + 3].type = "get"
                  /\ log[i + 3].bearer = log[i + 1].resp.json["access_token"]
                  /\ Len(Gets) = 2
                  /\ Cardinality({ j \in RefreshCalls : j > i }) = 1

C3_Witness ==
    /\ op = "fetch_egvs"
    /\ Len(Gets) = 2
    /\ Is401(Gets[1].resp)
    /\ Is401(Gets[2].resp)
    /\ Gets[2].bearer # Gets[1].bearer

\* C4 as claimed: a 401 on the first retrieval followed by a failed refresh
\* (rejected, or no refresh token stored) ends the invocation with an error,
\* without a second retrieval, without writing the output file and with the
\* stored credential as it was when the invocation began.
C4_Claimed ==
    (op = "fetch_egvs" /\ FirstGet > 0 /\ Is401(log[FirstGet].resp)
        /\ \E j \in RefreshCalls : j > FirstGet /\ ~log[j].raised
                /\ (~log[j].sent \/ Rejected(log[j].resp))) =>
        /\ "error" \in DOMAIN ret.payload
        /\ Len(Gets) = 1
        /\ csv_file = pre.csv
        /\ TOKENS = pre.TOKENS
        /\ token_file = pre.file

\* C4 amended: ... and with the stored credential as it was when the first
\* retrieval call was issued, which is the credential the invocation began
\* with whenever an access token was cached.
C4_FailedRefreshEndsFetch ==
    (op = "fetch_egvs" /\ FirstGet > 0 /\ Is401(log[FirstGet].resp)
        /\ \E j \in RefreshCalls : j > FirstGet /\ ~log[j].raised
                /\ (~log[j].sent \/ Rejected(log[j].resp))) =>
        /\ "error" \in DOMAIN ret.payload
        /\ Len(Gets) = 1
        /\ csv_file = pre.csv
        /\ TOKENS = StoreAtFirstGet.TOKENS
        /\ token_file = StoreAtFirstGet.file
        /\ "access_token" \in DOMAIN pre.TOKENS =>
              (TOKENS = pre.TOKENS /\ token_file = pre.file)

C4_Witness ==
    /\ op = "fetch_egvs"
    /\ FirstGet = 3
    /\ Is401(log[FirstGet].resp)
    /\ \E j \in RefreshCalls : j > FirstGet /\ log[j].sent /\ Rejected(log[j].resp)
    /\ TOKENS # pre.TOKENS

\* the vendor's outage bodies, and the failures the exchange may retry
OutageTexts == {<<"502", "Bad", "Gateway">>, <<"UAM", "is", "down">>}
Transient(resp) == Rejected(resp) /\ resp.text \in OutageTexts
Retryable(resp) == resp.kind = "neterr" \/ Transient(resp)
Sleep5 == [type |-> "sleep", secs |-> 5]
StoreUntouched == TOKENS = pre.TOKENS /\ token_file = pre.file

\* C5: in the code exchange of main.py a transient-marker answer is followed
\* by another attempt, and on the answers [transient, transient, success] the
\* exchange issues exactly three token requests with a 5-second delay after
\* the first and after the second and none after the third, saves the third
\* answer's credential to the file and to TOKENS, and returns it.
C5_SucceedsOnThirdAttempt ==
    op = "callback" =>
        /\ (Len(Posts) >= 1 /\ Transient(Posts[1].resp)) => Len(Posts) >= 2
        /\ (Len(Posts) >= 2 /\ Transient(Posts[1].resp) /\ Transient(Posts[2].resp)) =>
               Len(Posts) = 3
        /\ (Len(Posts) = 3 /\ Transient(Posts[1].resp) /\ Transient(Posts[2].resp)
               /\ Accepted(Posts[3].resp)) =>
             LET body == Posts[3].resp.json IN
             /\ log = <<Posts[1], Sleep5, Posts[2], Sleep5, Posts[3]>>
             /\ ret.status = 200
             /\ ret.payload.tokens = body
             /\ token_file.exists
             /\ json_load(token_file.text) = body
             /\ \A k \in DOMAIN body : k \in DOMAIN TOKENS /\ TOKENS[k] = body[k]

C5_Witness ==
    /\ op = "callback"
    /\ Len(Posts) = 3
    /\ Posts[1].resp.text = <<"UAM", "is", "down">>
    /\ Posts[2].resp.text = <<"502", "Bad", "Gateway">>
    /\ Accepted(Posts[3].resp)
    /\ Len(Sleeps) = 2
    /\ pre.file.exists
    /\ token_file # pre.file

\* C6: when every answer of the code exchange is a transient-marker answer,
\* the exchange ends after exactly three token requests with the
\* service-unavailable answer (503) and the stored credential is unchanged.
C6_ThreeTransientsGive503 ==
    (op = "callback" /\ \A i \in DOMAIN Posts : Transient(Posts[i].resp)) =>
        /\ Len(Posts) = 3
        /\ ret.status = 503
        /\ Len(Sleeps) = 2
        /\ log[Len(log)].type = "post"
        /\ StoreUntouched

C6_Witness ==
    /\ op = "callback"
    /\ Len(Posts) = 3
    /\ \A i \in DOMAIN Posts : Transient(Posts[i].resp)
    /\ HasRefreshToken(TOKENS)

\* C7 as claimed: three retryable failures in a row (transport errors and
\* transient-marker answers in any mix) end the exchange with the
\* service-unavailable answer, which is not the answer of a generic failure.
C7_Claimed ==
    (op = "callback" /\ Len(Posts) = 3 /\ \A i \in DOMAIN Posts : Retryable(Posts[i].resp)) =>
        /\ ret.status = 503
        /\ DOMAIN ret.payload # {"error"}

\* C7 amended: three retryable failures in a row exhaust the attempts; the
\* exchange ends with the service-unavailable answer (503, not the answer of
\* a generic failure) when the third failure is a transient-marker answer,
\* and with a 500 "Network error" answer when it is a transport error.
C7_ExhaustedRetries ==
    (op = "callback" /\ \A i \in DOMAIN Posts : Retryable(Posts[i].resp)) =>
        /\ Len(Posts) = 3
        /\ Transient(Posts[3].resp) =>
              /\ ret.status = 503
              /\ DOMAIN ret.payload = {"error", "message", "retry_after"}
        /\ Posts[3].resp.kind = "neterr" =>
              /\ ret.status = 500
              /\ ret.payload = [error |-> <<"Network error">>]

C7_Witness ==
    /\ op = "callback"
    /\ Len(Posts) = 3
    /\ Transient(Posts[1].resp)
    /\ Posts[2].resp.kind = "neterr"
    /\ Posts[3].resp.kind = "neterr"
    /\ ret.status = 500

\* C8: a non-200 answer without the transient marker ends the code exchange
\* on the attempt that received it, whichever attempt that is: nothing
\* follows it in the log, the caller gets the vendor's body as the error with
\* the vendor's status, and the stored credential is unchanged.
C8_OtherRejectionEndsExchange ==
    op = "callback" =>
        \A i \in DOMAIN log :
            (log[i].type = "post" /\ Rejected(log[i].resp) /\ ~Transient(log[i].resp)) =>
                /\ i = Len(log)
                /\ ret = [status |-> log[i].resp.status,
                          payload |-> [error |-> log[i].resp.text]]
                /\ StoreUntouched

C8_Witness ==
    /\ op = "callback"
    /\ Len(Posts) = 3
    /\ Posts[3].resp.status = 502
    /\ Posts[3].resp.text = <<"Bad", "Gateway">>
    /\ HasRefreshToken(TOKENS)

\* the last call of refresh_access_token of the invocation
LastRefresh == CHOOSE i \in RefreshCalls : \A j \in RefreshCalls : j <= i
RefreshedOk ==
    /\ RefreshCalls # {}
    /\ HasRefreshToken(log[LastRefresh].before.TOKENS)
    /\ log[LastRefresh].sent
    /\ Accepted(log[LastRefresh].resp)

\* C9: after a successful refresh of a credential with a refresh token,
\* load_tokens() yields the credential the vendor returned, in the process
\* that refreshed and in a process started afterwards.
C9_Claimed ==
    /\ (op = "fetch_egvs" /\ RefreshedOk) =>
          /\ load_tokens(TOKENS, token_file) = log[LastRefresh].resp.json
          /\ load_tokens(EmptyDict, token_file) = log[LastRefresh].resp.json
    /\ (op = "restart" /\ prog = "main" /\ RefreshedOk) =>
          TOKENS = log[LastRefresh].resp.json

\* C10: after a successful refresh TOKENS is exactly the mapping the vendor
\* returned.
C10_Claimed ==
    (op = "fetch_egvs" /\ RefreshedOk) => TOKENS = log[LastRefresh].resp.json

\* the credential lifecycle of section 4.2
FileDict == IF token_file.exists THEN json_load(token_file.text) ELSE EmptyDict
Authenticated == HasRefreshToken(TOKENS) /\ HasRefreshToken(FileDict)
Unauthenticated == TOKENS = EmptyDict /\ ~token_file.exists

\* C11: once TOKENS and the token file of main.py hold a refresh token, no
\* code exchange, refresh, fetch or restart, whatever the vendor answers,
\* takes the refresh token away from either of them.
C11_Claimed ==
    [][(prog = "main" /\ Authenticated) => Authenticated']_vars

\* C12: from the empty store with no token file, /login, fetch_egvs (and
\* the refresh inside it), restarts and failed code exchanges leave TOKENS
\* empty and create no token file; the store only becomes non-empty by a code
\* exchange whose token request was answered 200.
C12_OnlyExchangeAuthenticates ==
    [][(prog = "main" /\ Unauthenticated) =>
          \/ Unauthenticated'
          \/ /\ op' = "callback"
             /\ log' # <<>>
             /\ Accepted(log'[Len(log')].resp)
             /\ TOKENS' # EmptyDict]_vars

C12_Witness ==
    /\ prog = "main"
    /\ op = "fetch_egvs"
    /\ pre.TOKENS = EmptyDict
    /\ ~pre.file.exists
    /\ Unauthenticated
    /\ "error" \in DOMAIN ret.payload

\* the answer the invocation of fetch_egvs ended on, if it ended on one
EndsOnGet == op = "fetch_egvs" /\ log # <<>> /\ log[Len(log)].type = "get"
LastGet == log[Len(log)]
EmptyResult == Accepted(LastGet.resp) /\ dict_get(LastGet.resp.json, "egvs", <<>>) = <<>>

\* C13 as claimed: when the retrieval succeeds with an empty result set,
\* fetch_egvs answers with a success, not an error, and leaves an output file
\* that is empty (header only), i.e. that represents the batch just fetched.
C13_Claimed ==
    (EndsOnGet /\ EmptyResult) =>
        /\ ret.status = 200
        /\ "error" \notin DOMAIN ret.payload
        /\ csv_file.exists
        /\ csv_file.rows = <<>>

\* C13 amended: when the retrieval succeeds with an empty result set,
\* fetch_egvs answers with a success, not an error, and writes nothing: the
\* output file stays as it was, absent or holding the batch saved last.
C13_EmptyResultWritesNothing ==
    (EndsOnGet /\ EmptyResult) =>
        /\ ret.status = 200
        /\ "error" \notin DOMAIN ret.payload
        /\ "message" \in DOMAIN ret.payload
        /\ csv_file = pre.csv

C13_Witness ==
    /\ EndsOnGet
    /\ EmptyResult
    /\ "egvs" \in DOMAIN LastGet.resp.json
    /\ pre.csv.exists
    /\ csv_file.rows # <<>>

\* C14: every vendor-facing error reaches the HTTP caller as an error payload
\* under the vendor's status code: a rejected code exchange, a rejected
\* refresh and a rejected retrieval alike.
C14_Claimed ==
    /\ (EndsOnGet /\ Rejected(LastGet.resp)) =>
          /\ "error" \in DOMAIN ret.payload
          /\ ret.status = LastGet.resp.status
    /\ (op = "fetch_egvs" /\ \E i \in RefreshCalls : log[i].sent /\ Rejected(log[i].resp)) =>
          /\ "error" \in DOMAIN ret.payload
          /\ ret.status = log[Len(log)].resp.status
    /\ (op \in {"callback", "tt_callback", "tt_refresh"} /\ log # <<>>
          /\ Rejected(log[Len(log)].resp) /\ ~Transient(log[Len(log)].resp)) =>
          /\ "error" \in DOMAIN ret.payload
          /\ ret.status = log[Len(log)].resp.status

\* C16: fetch_egvs with no access token cached calls refresh_access_token
\* before any retrieval; without a stored refresh token, or when the refresh
\* is not answered 200, the invocation ends in an error with no retrieval
\* call; when it is answered 200 the first retrieval carries the access token
\* of that answer.  With an access token cached the first thing sent is the
\* retrieval, carrying the cached token.
C16_RefreshWhenNoAccessToken ==
    op = "fetch_egvs" =>
        IF "access_token" \in DOMAIN pre.TOKENS
        THEN /\ log # <<>>
             /\ log[1].type = "get"
             /\ log[1].bearer = pre.TOKENS["access_token"]
        ELSE /\ RefreshCalls # {}
             /\ FirstGet = 0 \/ \E i \in RefreshCalls : i < FirstGet
             /\ ~HasRefreshToken(pre.TOKENS) =>
                   /\ Len(log) = 1
                   /\ "error" \in DOMAIN ret.payload
             /\ (HasRefreshToken(pre.TOKENS) /\ ~Accepted(log[1].resp)) =>
                   /\ log[1].type = "post"
                   /\ Gets = <<>>
                   /\ Len(Posts) = 1
                   /\ "error" \in DOMAIN ret.payload \/ ret.status = 500
             /\ (HasRefreshToken(pre.TOKENS) /\ Accepted(log[1].resp)) =>
                   /\ log[1].type = "post"
                   /\ FirstGet = 3
                   /\ log[3].bearer = log[1].resp.json["access_token"]

C16_Witness ==
    /\ op = "fetch_egvs"
    /\ "access_token" \notin DOMAIN pre.TOKENS
    /\ HasRefreshToken(pre.TOKENS)
    /\ Accepted(log[1].resp)
    /\ Len(Gets) = 1
    /\ Accepted(Gets[1].resp)
    /\ csv_file.exists

RECURSIVE SleepTotal(_)
SleepTotal(l) ==
    IF l = <<>> THEN 0
    ELSE (IF Head(l).type = "sleep" THEN Head(l).secs ELSE 0) + SleepTotal(Tail(l))

\* C17: whatever the vendor does, an invocation of the code exchange ends
\* with an answer after one to three token requests and at most 15 seconds
\* of sleep, and the last thing it did before answering was a token request,
\* not a delay.
C17_ExchangeIsBounded ==
    op = "callback" =>
        /\ Len(Posts) \in 1..3
        /\ SleepTotal(log) <= 15
        /\ Len(Sleeps) = Len(Posts) - 1
        /\ log[Len(log)].type = "post"
        /\ ret.status \in {200, 400, 500, 502, 503}

C17_Witness ==
    /\ op = "callback"
    /\ Len(Posts) = 3
    /\ SleepTotal(log) = 10
    /\ Posts[1].resp.kind = "neterr"
    /\ Transient(Posts[2].resp)
    /\ Posts[3].resp.status = 400

\* C20: the answer placed after the retry loop is never given: the exchange
\* always answers from inside the loop, on the third attempt at the latest.
C20_FallThroughUnreachable ==
    op = "callback" =>
        /\ "error" \in DOMAIN ret.payload =>
              ret.payload.error # <<"Failed after multiple retries">>
        /\ Len(Posts) <= 3
        /\ log[Len(log)].type = "post"

C20_Witness ==
    /\ op = "callback"
    /\ Len(Posts) = 3
    /\ \A i \in 1..3 : Posts[i].resp.kind = "neterr"
    /\ ret.payload.error = <<"Network error">>

\* the refresh token the vendor had issued last when log[i] was sent
IssuedBefore(i) == last_issued(SubSeq(log, 1, i - 1), pre.issued)
RefreshPosts == { i \in DOMAIN log : log[i].type = "post" /\ log[i].grant = "refresh_token" }

\* C19: in main.py, with handlers run one at a time and across restarts,
\* every refresh request presents the refresh token that the vendor issued
\* last (in the latest 200 answer of the token endpoint that carried one),
\* never one that a later answer has replaced.
C19_RefreshPresentsLatestToken ==
    prog = "main" =>
        /\ \A i \in RefreshPosts : log[i].tok = IssuedBefore(i)
        /\ HasRefreshToken(TOKENS) => TOKENS["refresh_token"] = issued

C19_Witness ==
    /\ prog = "main"
    /\ op = "fetch_egvs"
    /\ Cardinality(RefreshPosts) = 2
    /\ HasRefreshToken(Posts[1].resp.json)
    /\ Posts[2].tok = Posts[1].resp.json["refresh_token"]
    /\ Posts[2].tok # Posts[1].tok

\* C18: in dexcom_fetch.py a successful refresh persists the rotated pair:
\* the refresh request of a run presents the refresh token that the last
\* successful refresh of an earlier run returned.
C18_Claimed ==
    (prog = "script" /\ op = "script") => Posts[1].tok = pre.issued

\* the access/refresh token pair of a credential
Pair(d) == [k \in {"access_token", "refresh_token"} \cap DOMAIN d |-> d[k]]
PairsAgree == Pair(TOKENS) = Pair(FileDict)
Between == \E t \in Threads : thr.pc[t] = "written"

\* C15 as claimed: with two saving invocations interleaved at the two steps
\* of save_tokens, the file is never updated while the memory is not, and
\* when both are done the file and TOKENS hold the same token pair.
C15_Claimed ==
    /\ Between => PairsAgree
    /\ (\A t \in Threads : thr.pc[t] = "done") => PairsAgree

\* C15 amended: save_tokens is atomic only when no other invocation moves
\* between its two steps: as long as the saving invocations have run one
\* after the other, outside the two steps the file holds the credential
\* saved last and TOKENS holds every key and value of the file, so after both
\* are done the file and TOKENS hold the same token pair.
C15_AtomicWhenSequential ==
    (~thr.overlapped /\ ~Between /\ thr.last # 0) =>
        /\ FileDict = thr.tokens[thr.last]
        /\ \A k \in DOMAIN FileDict : k \in DOMAIN TOKENS /\ TOKENS[k] = FileDict[k]
        /\ PairsAgree

C15_Witness ==
    /\ \A t \in Threads : thr.pc[t] = "done"
    /\ ~thr.overlapped
    /\ Pair(thr.tokens[1]) # Pair(thr.tokens[2])
    /\ Pair(pre.TOKENS) # Pair(TOKENS)

====
